---- MODULE Spec2Model ----
(***************************************************************************)
(* Complaint lifecycle of the Naveen Seva Mitra backend: the complaint     *)
(* routes of the four revisions of server.js, the upload middleware in     *)
(* front of them, the Record Store (MongoDB through Mongoose) and the      *)
(* Media Store (Cloudinary, or the uploads/complaints directory).          *)
(*                                                                         *)
(* Revisions:                                                              *)
(*   "cloudA"  src/server.js                     Cloudinary, 20 MB         *)
(*   "diskA"   src/unnamed/part_000:1-571        local disk, 50 MB         *)
(*   "diskB"   src/unnamed/part_000:572-1054     local disk, 20 MB         *)
(*   "cloudB"  src/unnamed/part_000:1055-1634    Cloudinary, 50 MB         *)
(*                                                                         *)
(* A handler runs as a sequence of steps, one per await of the source.     *)
(* Sizes are counted in megabytes, times in clock readings of Date.now().  *)
(***************************************************************************)
EXTENDS Integers, Sequences, FiniteSets, TLC

VARIABLES rev, limit, now, nextRand, nreq, complaints, media, reqs, completedOnce,
          activities, nextAct

vars == <<rev, limit, now, nextRand, nreq, complaints, media, reqs, completedOnce,
          activities, nextAct>>

(* ----------------------------- bounds ---------------------------------- *)
\* number of requests of one behaviour
MaxOps == 2
\* number of request slots (requests in flight at once)
MaxReq == 2
\* size of the largest store the read routes are run on
MaxStore == 52

Slots == 1..MaxReq

(* ------------------------- values and records -------------------------- *)
Revisions == {"cloudA", "diskA", "diskB", "cloudB"}

DiskRevs == {"diskA", "diskB"}

CloudRevs == {"cloudA", "cloudB"}

\* undefined / null of JavaScript, one per type used
Absent == "<undefined>"

NoTime == -1

NoSize == -1

NoAsset == [folder |-> "none", t |-> 0, k |-> 0]

Falsy(v) == v \in {Absent, ""}

StatusEnum == {"pending", "in-progress", "completed"}

NoFile == [present |-> FALSE, mimetype |-> "", ext |-> "", size |-> 0]

NoBody ==
  [phoneNumber |-> Absent, category |-> Absent, description |-> Absent,
   location |-> Absent, status |-> Absent]

NoDoc ==
  [id |-> 0, phoneNumber |-> Absent, category |-> Absent, description |-> Absent,
   location |-> Absent, status |-> Absent,
   imageBefore |-> NoAsset, imageAfter |-> NoAsset,
   cloudinaryIdBefore |-> NoAsset, cloudinaryIdAfter |-> NoAsset,
   imageType |-> Absent, fileSize |-> NoSize,
   resolvedAt |-> NoTime, createdAt |-> NoTime]

\* Complaint without the file's type and size
ComplaintNoFileMeta(id, body, image, cloudinaryId, file, t) ==
  [id |-> id,
   phoneNumber |-> body.phoneNumber,
   category |-> body.category,
   description |-> body.description,
   location |-> IF Falsy(body.location) THEN "" ELSE body.location,
   status |-> IF Falsy(body.status) THEN "pending" ELSE body.status,
   imageBefore |-> image, imageAfter |-> NoAsset,
   cloudinaryIdBefore |-> cloudinaryId, cloudinaryIdAfter |-> NoAsset,
   imageType |-> "image/jpeg",
   fileSize |-> NoSize,
   resolvedAt |-> NoTime,
   createdAt |-> t]

\* Complaint with another default status
ComplaintInProgress(id, body, image, cloudinaryId, file, t) ==
  [id |-> id,
   phoneNumber |-> body.phoneNumber,
   category |-> body.category,
   description |-> body.description,
   location |-> IF Falsy(body.location) THEN "" ELSE body.location,
   status |-> IF Falsy(body.status) THEN "in-progress" ELSE body.status,
   imageBefore |-> image, imageAfter |-> NoAsset,
   cloudinaryIdBefore |-> cloudinaryId, cloudinaryIdAfter |-> NoAsset,
   imageType |-> IF file.present THEN file.mimetype ELSE "image/jpeg",
   fileSize |-> IF file.present THEN file.size ELSE NoSize,
   resolvedAt |-> NoTime,
   createdAt |-> t]

\* new Complaint({...}): the schema's defaults fill what the handler leaves out
Complaint(id, body, image, cloudinaryId, file, t) ==
  [id |-> id,
   phoneNumber |-> body.phoneNumber,
   category |-> body.category,
   description |-> body.description,
   location |-> IF Falsy(body.location) THEN "" ELSE body.location,
   status |-> IF Falsy(body.status) THEN "pending" ELSE body.status,
   imageBefore |-> image, imageAfter |-> NoAsset,
   cloudinaryIdBefore |-> cloudinaryId, cloudinaryIdAfter |-> NoAsset,
   imageType |-> IF file.present THEN file.mimetype ELSE "image/jpeg",
   fileSize |-> IF file.present THEN file.size ELSE NoSize,
   resolvedAt |-> NoTime,
   createdAt |-> t]

\* the schema's validators, run by save() on a new document
SchemaValid(doc) ==
  /\ ~Falsy(doc.phoneNumber) /\ ~Falsy(doc.category) /\ ~Falsy(doc.description)
  /\ doc.status \in StatusEnum

(* ------------------------------ upload --------------------------------- *)
AllowedMimes(r) ==
  {"image/jpeg", "image/jpg", "image/png", "image/gif", "image/webp",
   "image/heic", "image/heif", "image/avif", "image/tiff", "image/bmp"}
  \cup (IF r = "cloudA" THEN {} ELSE {"image/svg+xml"})

AllowedExtensions(r) ==
  IF r = "cloudA" THEN {}
  ELSE {".jpg", ".jpeg", ".png", ".gif", ".webp", ".heic", ".heif", ".avif",
        ".tiff", ".tif", ".bmp", ".svg"}

\* fileFilter that calls cb(null, true) for every file
fileFilterAny(r, file) == TRUE

\* upload.fileFilter: TRUE when the file is let through
fileFilter(r, file) ==
  \/ file.mimetype \in AllowedMimes(r)
  \/ file.ext \in AllowedExtensions(r)

\* limits.fileSize, in megabytes
FileSizeLimit(r) == IF r \in {"cloudA", "diskB"} THEN 20 ELSE 50

\* MulterError of an upload without limits.fileSize
MulterErrorNoLimit(r, file) ==
  IF ~file.present THEN ""
  ELSE IF ~fileFilter(r, file) THEN "media"
  ELSE ""

\* the error upload.single('image') hands to handleMulterError, "" when none
MulterError(r, file) ==
  IF ~file.present THEN ""
  ELSE IF ~fileFilter(r, file) THEN "media"
  ELSE IF file.size > FileSizeLimit(r) THEN "too_large"
  ELSE ""

\* handleMulterError: the status of the response for an upload error
handleMulterError(err) == 400

\* the name of a stored asset: folder, Date.now() part, random or caller part
AssetName(folder, t, k) == [folder |-> folder, t |-> t, k |-> k]

\* multer.diskStorage filename: 'image-' + Date.now() + '-' + random + ext;
\* the random part alone tells two names apart, the time part is left out
DiskName(rnd) == AssetName("disk", 0, rnd)

\* public_id of uploadToCloudinary: cloudA derives it from the handler's
\* fileName (Date.now() and the complaint id, 0 standing for originalname),
\* cloudB from Date.now() and Math.random(), of which the random part is kept
CloudName(r, folder, t, id, rnd) ==
  IF r = "cloudA" THEN AssetName(folder, t, id) ELSE AssetName(folder, 0, rnd)

(* ----------------------------- requests -------------------------------- *)
IdleReq ==
  [op |-> "none", pc |-> "idle", id |-> 0, body |-> NoBody, file |-> NoFile,
   orig |-> NoDoc, doc |-> NoDoc, asset |-> NoAsset,
   delErr |-> FALSE, code |-> 0, kind |-> "", out |-> <<>>,
   cs0 |-> <<>>, ms0 |-> {}, as0 |-> {},
   stores |-> 0, deletes |-> 0, writes |-> 0]

Free(s) == reqs[s].pc = "idle"

\* a response: status code, kind of outcome, and the record sent (NoDoc if none)
Respond(r, code, kind, doc) ==
  [r EXCEPT !.pc = "done", !.code = code, !.kind = kind, !.doc = doc]

\* history: the request has called the Media Store to store (multer's disk
\* storage, uploadToCloudinary), to delete (fs.unlinkSync, uploader.destroy),
\* or the Record Store to write (save, findByIdAndUpdate)
Stored(r) == [r EXCEPT !.stores = @ + 1]

Deleted(r) == [r EXCEPT !.deletes = @ + 1]

Wrote(r) == [r EXCEPT !.writes = @ + 1]

\* a request as it arrives, with the stores as they are at that moment
Arrive(op, id, body, file) ==
  [IdleReq EXCEPT !.op = op, !.pc = "run", !.id = id, !.body = body,
                  !.file = file, !.cs0 = complaints, !.ms0 = media,
                  !.as0 = activities]

BadId == 0

Exists(id) == id \in 1..Len(complaints)

MissingFields(body) ==
  Falsy(body.phoneNumber) \/ Falsy(body.category) \/ Falsy(body.description)


(* ------------------------------ inputs --------------------------------- *)
GoodBody(location, status) ==
  [phoneNumber |-> "9000000001", category |-> "water", description |-> "leak",
   location |-> location, status |-> status]

ValidBodies ==
  {GoodBody(Absent, Absent), GoodBody("ward 4", "completed"), GoodBody(Absent, "other")}

InvalidBodies ==
  {[GoodBody(Absent, Absent) EXCEPT !.phoneNumber = Absent],
   [GoodBody(Absent, Absent) EXCEPT !.category = ""],
   [GoodBody("ward 4", "completed") EXCEPT !.description = Absent],
   NoBody}

Bodies == ValidBodies \cup InvalidBodies

File(mimetype, ext, size) ==
  [present |-> TRUE, mimetype |-> mimetype, ext |-> ext, size |-> size]

Files ==
  {NoFile,
   File("image/png", ".png", 1),
   File("application/octet-stream", ".jpg", 60),
   File("image/jpeg", ".jpg", 30),
   File("application/pdf", ".pdf", 1)}

StatusInputs == StatusEnum \cup {"other"}

\* ids a caller can send: malformed, every stored one, and one never assigned
Ids == {BadId} \cup (1..(Len(complaints) + 1))

(* ---------------------------- the stores ------------------------------- *)
\* the slot a new request takes: the lowest free one among the usable slots
CanStart(s) ==
  /\ nreq < MaxOps
  /\ s \in 1..limit
  /\ Free(s)
  /\ \A t \in 1..(s - 1) : ~Free(t)

\* history: the ids of the complaints that have held status completed
Completed(cs) == {i \in 1..Len(cs) : cs[i].status = "completed"}

\* save() writing the whole document as it is in memory
SaveWhole(stored, orig, doc) == doc

\* save() of a loaded document: $set of the paths whose value was changed
SaveModified(stored, orig, doc) ==
  [f \in DOMAIN stored |-> IF doc[f] # orig[f] THEN doc[f] ELSE stored[f]]

\* fs.existsSync(old) && fs.unlinkSync(old), resp. uploader.destroy(old)
Remove(store, asset) == store \ {asset}

\* AssignBefore writing the other image slot
AssignBeforeOtherSlot(doc, r, asset, file) ==
  [doc EXCEPT !.imageAfter = asset,
              !.cloudinaryIdAfter = IF r \in CloudRevs THEN asset ELSE @,
              !.imageType = file.mimetype,
              !.fileSize = file.size]

\* the assignments of upload-before to the loaded document
AssignBefore(doc, r, asset, file) ==
  [doc EXCEPT !.imageBefore = asset,
              !.cloudinaryIdBefore = IF r \in CloudRevs THEN asset ELSE @,
              !.imageType = file.mimetype,
              !.fileSize = file.size]

\* AssignAfter stamping createdAt instead of resolvedAt
AssignAfterStampsCreatedAt(doc, r, asset, file, t) ==
  [doc EXCEPT !.imageAfter = asset,
              !.cloudinaryIdAfter = IF r \in CloudRevs THEN asset ELSE @,
              !.status = "completed",
              !.createdAt = t + 1,
              !.imageType = file.mimetype,
              !.fileSize = file.size]

\* AssignAfter without the assignment of status
AssignAfterNoStatus(doc, r, asset, file, t) ==
  [doc EXCEPT !.imageAfter = asset,
              !.cloudinaryIdAfter = IF r \in CloudRevs THEN asset ELSE @,
              !.resolvedAt = t,
              !.imageType = file.mimetype,
              !.fileSize = file.size]

\* the assignments of upload-after to the loaded document
AssignAfter(doc, r, asset, file, t) ==
  [doc EXCEPT !.imageAfter = asset,
              !.cloudinaryIdAfter = IF r \in CloudRevs THEN asset ELSE @,
              !.status = "completed",
              !.resolvedAt = t,
              !.imageType = file.mimetype,
              !.fileSize = file.size]

Assign(op, doc, r, asset, file, t) ==
  IF op = "attachAfterImage" THEN AssignAfter(doc, r, asset, file, t)
  ELSE AssignBefore(doc, r, asset, file)

\* UpdateData resetting resolvedAt for every other status
UpdateDataClears(doc, status, t) ==
  [doc EXCEPT !.status = status,
              !.resolvedAt = IF status = "completed" THEN t ELSE NoTime]

\* updateData of PUT /api/complaints/:id/status applied by findByIdAndUpdate
UpdateData(doc, status, t) ==
  [doc EXCEPT !.status = status,
              !.resolvedAt = IF status = "completed" THEN t ELSE @]

\* the asset upload-before / upload-after looks for to delete
OldAsset(op, r, doc) ==
  IF r \in CloudRevs
  THEN (IF op = "attachAfterImage" THEN doc.cloudinaryIdAfter ELSE doc.cloudinaryIdBefore)
  ELSE (IF op = "attachAfterImage" THEN doc.imageAfter ELSE doc.imageBefore)

Folder(op) == IF op = "attachAfterImage" THEN "after" ELSE "before"


(* ------------------------------ actions -------------------------------- *)
\* a complaint persisted by an earlier POST /api/complaints
Seed == Complaint(1, GoodBody(Absent, Absent), NoAsset, NoAsset, NoFile, 0)

\* the stores are empty, or hold what an earlier run of the server left
Init ==
  /\ rev \in Revisions
  /\ limit = 1
  /\ now = 0
  /\ nextRand = 1
  /\ nreq = 0
  /\ complaints \in {<<>>, <<Seed>>}
  /\ media = {}
  /\ reqs = [s \in Slots |-> IdleReq]
  /\ completedOnce = Completed(complaints)
  /\ activities = {}
  /\ nextAct = 1

\* Date.now() / new Date(): `now` is the last reading anything holds, and a
\* read returns that reading again or the next one
Readings == {now, now + 1}

\* the response has been sent and the connection is closed
Close(s) ==
  /\ reqs[s].pc = "done"
  /\ reqs' = [reqs EXCEPT ![s] = IdleReq]
  /\ UNCHANGED <<activities, nextAct, rev, limit, now, nextRand, nreq, complaints, media, completedOnce>>

\* POST /api/complaints
Create(s, body, ok, t) ==
  /\ CanStart(s)
  /\ nreq' = nreq + 1
  /\ LET r == Arrive("create", 0, body, NoFile)
         doc == Complaint(Len(complaints) + 1, body, NoAsset, NoAsset, NoFile, t)
     IN IF MissingFields(body)
        THEN /\ ok /\ t = now
             /\ reqs' = [reqs EXCEPT ![s] = Respond(r, 400, "validation", NoDoc)]
             /\ UNCHANGED <<complaints, now>>
        ELSE IF ok /\ SchemaValid(doc)
        THEN /\ complaints' = Append(complaints, doc)
             /\ now' = t
             /\ reqs' = [reqs EXCEPT ![s] = Respond(Wrote(r), 201, "ok", doc)]
        ELSE /\ t = now
             /\ reqs' = [reqs EXCEPT ![s] = Respond(Wrote(r), 500, "save", NoDoc)]
             /\ UNCHANGED <<complaints, now>>
  /\ completedOnce' = completedOnce \cup Completed(complaints')
  /\ UNCHANGED <<activities, nextAct, rev, limit, nextRand, media>>

\* PUT /api/complaints/:id/status
UpdateStatus(s, id, status, ok, t) ==
  /\ CanStart(s)
  /\ nreq' = nreq + 1
  /\ LET r == Arrive("updateStatus", id, [NoBody EXCEPT !.status = status], NoFile)
     IN IF id = BadId \/ ~ok
        THEN /\ ok \/ id # BadId
             /\ t = now
             /\ reqs' = [reqs EXCEPT ![s] =
                           Respond(IF id = BadId THEN r ELSE Wrote(r), 400,
                                   IF id = BadId THEN "cast" ELSE "store", NoDoc)]
             /\ UNCHANGED <<complaints, now>>
        ELSE IF ~Exists(id)
        THEN /\ t = now
             /\ reqs' = [reqs EXCEPT ![s] = Respond(Wrote(r), 404, "not_found", NoDoc)]
             /\ UNCHANGED <<complaints, now>>
        ELSE LET doc == UpdateData(complaints[id], status, t)
             IN /\ t = now \/ status = "completed"
                /\ now' = t
                /\ complaints' = [complaints EXCEPT ![id] = doc]
                /\ reqs' = [reqs EXCEPT ![s] =
                              Respond([Wrote(r) EXCEPT !.orig = complaints[id]],
                                      200, "ok", doc)]
  /\ completedOnce' = completedOnce \cup Completed(complaints')
  /\ UNCHANGED <<activities, nextAct, rev, limit, nextRand, media>>

\* CatchCreate with the cleanup of diskB in both disk revisions
CatchCreateBothDisk(r, kind, store, delOk, forwarded) ==
  IF rev \in DiskRevs /\ r.file.present
  THEN [req |-> Respond(r, 500, kind, NoDoc), media |-> Remove(store, r.asset)]
  ELSE [req |-> Respond(r, 500, kind, NoDoc), media |-> store]

\* what the catch block of POST /api/complaints-with-image does with the
\* uploaded file before it answers 500: diskB unlinks it, and an unlink that
\* throws there leaves the handler's promise rejected (no response is sent,
\* unless the framework forwards the rejection to the error middleware)
CatchCreate(r, kind, store, delOk, forwarded) ==
  IF rev = "diskB" /\ r.file.present
  THEN IF delOk
       THEN [req |-> Respond(Deleted(r), 500, kind, NoDoc),
             media |-> Remove(store, r.asset)]
       ELSE IF forwarded
       THEN [req |-> Respond([Deleted(r) EXCEPT !.delErr = TRUE], 500, "unhandled", NoDoc),
             media |-> store]
       ELSE [req |-> [Deleted(r) EXCEPT !.pc = "hung", !.delErr = TRUE, !.kind = kind],
             media |-> store]
  ELSE [req |-> Respond(r, 500, kind, NoDoc), media |-> store]

\* POST /api/complaints-with-image, from upload.single('image') up to the
\* first await of the handler
CreateWithBeforeImage(s, body, file, delOk, delOk2, forwarded, t) ==
  /\ CanStart(s)
  /\ nreq' = nreq + 1
  /\ LET r0 == Arrive("createWithBeforeImage", 0, body, file)
         err == MulterError(rev, file)
         onDisk == rev \in DiskRevs /\ file.present
         name == DiskName(nextRand)
         stored == IF onDisk THEN media \cup {name} ELSE media
         r == IF onDisk THEN Stored([r0 EXCEPT !.asset = name]) ELSE r0
         cleans == rev = "diskB" /\ file.present /\ err = "" /\ MissingFields(body)
         reads == err = "" /\ ~MissingFields(body) /\ file.present /\ rev # "cloudB"
     IN /\ delOk \/ cleans
        /\ delOk2 \/ (cleans /\ ~delOk)
        /\ forwarded \/ (cleans /\ ~delOk /\ ~delOk2)
        /\ t = now \/ reads
        /\ now' = t
        /\ IF err # ""
           THEN /\ reqs' = [reqs EXCEPT ![s] =
                              Respond(r0, handleMulterError(err), err, NoDoc)]
                /\ UNCHANGED <<media, nextRand>>
           ELSE IF MissingFields(body)
           THEN IF cleans /\ ~delOk
                THEN LET c == CatchCreate(Deleted(r), "unlink", stored, delOk2, forwarded)
                     IN /\ reqs' = [reqs EXCEPT ![s] = c.req]
                        /\ media' = c.media
                        /\ nextRand' = nextRand + 1
                ELSE /\ reqs' = [reqs EXCEPT ![s] =
                          Respond(IF cleans THEN Deleted(r) ELSE r, 400, "validation", NoDoc)]
                     /\ media' = IF rev = "diskB" THEN Remove(stored, name) ELSE stored
                     /\ nextRand' = IF onDisk THEN nextRand + 1 ELSE nextRand
           ELSE IF ~file.present
           THEN /\ reqs' = [reqs EXCEPT ![s] = Respond(r, 400, "no_file", NoDoc)]
                /\ UNCHANGED <<media, nextRand>>
           ELSE IF rev \in CloudRevs
           THEN /\ reqs' = [reqs EXCEPT ![s] =
                     [r EXCEPT !.pc = "upload",
                               !.asset = CloudName(rev, "before", t, 0, nextRand)]]
                /\ nextRand' = IF rev = "cloudB" THEN nextRand + 1 ELSE nextRand
                /\ UNCHANGED media
           ELSE /\ reqs' = [reqs EXCEPT ![s] =
                     [r EXCEPT !.pc = "save",
                               !.doc = Complaint(0, body, name, NoAsset, file, t)]]
                /\ media' = stored
                /\ nextRand' = nextRand + 1
  /\ UNCHANGED <<activities, nextAct, rev, limit, complaints, completedOnce>>

\* POST /api/complaints/:id/upload-before and upload-after, from
\* upload.single('image') up to the call of Complaint.findById
AttachImage(s, op, id, file) ==
  /\ CanStart(s)
  /\ nreq' = nreq + 1
  /\ LET r0 == Arrive(op, id, NoBody, file)
         err == MulterError(rev, file)
         onDisk == rev \in DiskRevs /\ file.present
         name == DiskName(nextRand)
         r == IF onDisk THEN Stored([r0 EXCEPT !.asset = name]) ELSE r0
     IN IF err # ""
        THEN /\ reqs' = [reqs EXCEPT ![s] = Respond(r0, handleMulterError(err), err, NoDoc)]
             /\ UNCHANGED <<media, nextRand>>
        ELSE IF rev \in {"diskA", "cloudB"} /\ ~file.present
        THEN /\ reqs' = [reqs EXCEPT ![s] = Respond(r, 400, "no_file", NoDoc)]
             /\ UNCHANGED <<media, nextRand>>
        ELSE /\ reqs' = [reqs EXCEPT ![s] = [r EXCEPT !.pc = "find"]]
             /\ media' = IF onDisk THEN media \cup {name} ELSE media
             /\ nextRand' = IF onDisk THEN nextRand + 1 ELSE nextRand
  /\ UNCHANGED <<activities, nextAct, rev, limit, now, complaints, completedOnce>>

\* Complaint.findById resolves; the handler runs up to its next await
FindById(s, ok, delOk, t) ==
  /\ reqs[s].pc = "find"
  /\ LET r == reqs[s]
         loaded == IF Exists(r.id) THEN complaints[r.id] ELSE NoDoc
         found == [r EXCEPT !.orig = loaded, !.doc = loaded]
         old == OldAsset(r.op, rev, loaded)
         proceeds == ok /\ Exists(r.id) /\ r.file.present
         unlinks == proceeds /\ rev \in DiskRevs /\ old # NoAsset /\ old \in media
         reads == /\ proceeds
                  /\ \/ rev = "cloudA" /\ old = NoAsset
                     \/ rev \in DiskRevs /\ r.op = "attachAfterImage" /\ (delOk \/ ~unlinks)
     IN /\ ok \/ r.id # BadId
        /\ delOk \/ unlinks
        /\ t = now \/ reads
        /\ now' = t
        /\ IF r.id = BadId \/ ~ok
           THEN /\ reqs' = [reqs EXCEPT ![s] =
                              Respond(r, 500, IF r.id = BadId THEN "cast" ELSE "lookup", NoDoc)]
                /\ UNCHANGED <<media, nextRand>>
           ELSE IF ~Exists(r.id)
           THEN /\ reqs' = [reqs EXCEPT ![s] = Respond(r, 404, "not_found", NoDoc)]
                /\ UNCHANGED <<media, nextRand>>
           ELSE IF ~r.file.present
           THEN /\ reqs' = [reqs EXCEPT ![s] = Respond(r, 400, "no_file", NoDoc)]
                /\ UNCHANGED <<media, nextRand>>
           ELSE IF rev = "cloudA" /\ old # NoAsset
           THEN /\ reqs' = [reqs EXCEPT ![s] = [found EXCEPT !.pc = "destroy"]]
                /\ UNCHANGED <<media, nextRand>>
           ELSE IF rev \in CloudRevs
           THEN /\ reqs' = [reqs EXCEPT ![s] =
                     [found EXCEPT !.pc = "upload",
                                   !.asset = CloudName(rev, Folder(r.op), t, r.id, nextRand)]]
                /\ nextRand' = IF rev = "cloudB" THEN nextRand + 1 ELSE nextRand
                /\ UNCHANGED media
           ELSE IF unlinks /\ ~delOk
           THEN /\ reqs' = [reqs EXCEPT ![s] =
                              Respond([Deleted(found) EXCEPT !.delErr = TRUE],
                                      500, "unlink", NoDoc)]
                /\ UNCHANGED <<media, nextRand>>
           ELSE /\ reqs' = [reqs EXCEPT ![s] =
                     [(IF unlinks THEN Deleted(found) ELSE found) EXCEPT
                        !.pc = "save",
                        !.doc = Assign(r.op, loaded, rev, r.asset, r.file, t)]]
                /\ media' = IF old # NoAsset THEN Remove(media, old) ELSE media
                /\ UNCHANGED nextRand
  /\ UNCHANGED <<activities, nextAct, rev, limit, nreq, complaints, completedOnce>>

\* cloudinary.uploader.destroy(old id) settles, inside its own try/catch
Destroy(s, ok, t) ==
  /\ reqs[s].pc = "destroy"
  /\ LET r == reqs[s]
         old == OldAsset(r.op, rev, r.orig)
     IN /\ media' = IF ok THEN Remove(media, old) ELSE media
        /\ now' = t
        /\ reqs' = [reqs EXCEPT ![s] =
             [Deleted(r) EXCEPT !.pc = "upload", !.delErr = ~ok,
                                !.asset = CloudName(rev, Folder(r.op), t, r.id, nextRand)]]
  /\ UNCHANGED <<activities, nextAct, rev, limit, nextRand, nreq, complaints, completedOnce>>

\* uploadToCloudinary settles; a round trip to the media host takes time
Upload(s, ok) ==
  /\ reqs[s].pc = "upload"
  /\ LET r == reqs[s]
     IN IF ~ok
        THEN /\ reqs' = [reqs EXCEPT ![s] = Respond(Stored(r), 500, "upload", NoDoc)]
             /\ UNCHANGED <<media, now>>
        ELSE /\ media' = media \cup {r.asset}
             /\ now' = now + 1
             /\ reqs' = [reqs EXCEPT ![s] =
                  [Stored(r) EXCEPT !.pc = "save",
                       !.doc = IF r.op = "createWithBeforeImage"
                               THEN Complaint(0, r.body, r.asset, r.asset, r.file, now')
                               ELSE Assign(r.op, r.doc, rev, r.asset, r.file, now')]]
  /\ UNCHANGED <<activities, nextAct, rev, limit, nextRand, nreq, complaints, completedOnce>>

\* complaint.save() settles and the handler answers
Save(s, ok, delOk, forwarded) ==
  /\ reqs[s].pc = "save"
  /\ LET r == Wrote(reqs[s])
         new == [r.doc EXCEPT !.id = Len(complaints) + 1]
         creates == r.op = "createWithBeforeImage"
         cleans == rev = "diskB" /\ creates /\ ~(ok /\ SchemaValid(r.doc))
     IN /\ delOk \/ cleans
        /\ forwarded \/ (cleans /\ ~delOk)
        /\ ok \/ ~creates \/ SchemaValid(r.doc)
        /\ IF creates
           THEN IF ok /\ SchemaValid(r.doc)
                THEN /\ complaints' = Append(complaints, new)
                     /\ reqs' = [reqs EXCEPT ![s] = Respond(r, 201, "ok", new)]
                     /\ UNCHANGED media
                ELSE LET c == CatchCreate(r, "save", media, delOk, forwarded)
                     IN /\ reqs' = [reqs EXCEPT ![s] = c.req]
                        /\ media' = c.media
                        /\ UNCHANGED complaints
           ELSE IF ok
                THEN /\ complaints' = [complaints EXCEPT ![r.id] = SaveModified(@, r.orig, r.doc)]
                     /\ reqs' = [reqs EXCEPT ![s] = Respond(r, 200, "ok", r.doc)]
                     /\ UNCHANGED media
                ELSE /\ reqs' = [reqs EXCEPT ![s] = Respond(r, 500, "save", NoDoc)]
                     /\ UNCHANGED <<media, complaints>>
  /\ completedOnce' = completedOnce \cup Completed(complaints')
  /\ UNCHANGED <<activities, nextAct, rev, limit, now, nextRand, nreq>>

(* ---------------------------- read routes ------------------------------ *)
\* .limit(50) of GET /api/complaints-with-images
ListLimit == 50

\* { field: { $ne: null } } for imageBefore or imageAfter
HasImage(c) == c.imageBefore # NoAsset \/ c.imageAfter # NoAsset

\* the orders the store may give to records of equal sort key
TieOrders == {"natural", "reverse"}

\* Before for .sort({ createdAt: 1 })
BeforeAscending(a, b, tie) ==
  \/ a.createdAt < b.createdAt
  \/ /\ a.createdAt = b.createdAt
     /\ IF tie = "natural" THEN a.id < b.id ELSE a.id > b.id

\* a comes before b under .sort({ createdAt: -1 })
Before(a, b, tie) ==
  \/ a.createdAt > b.createdAt
  \/ /\ a.createdAt = b.createdAt
     /\ IF tie = "natural" THEN a.id < b.id ELSE a.id > b.id

RECURSIVE SortDesc(_, _)
\* Complaint.find(...).sort({ createdAt: -1 }) over a set of records
SortDesc(S, tie) ==
  IF S = {} THEN <<>>
  ELSE LET first == CHOOSE a \in S : \A b \in S \ {a} : Before(a, b, tie)
       IN <<first>> \o SortDesc(S \ {first}, tie)

\* a query without .limit(n)
LimitNone(seq, n) == seq

\* .limit(n)
Limit(seq, n) == SubSeq(seq, 1, IF Len(seq) < n THEN Len(seq) ELSE n)

\* the records of the complaints collection
Records(cs) == {cs[i] : i \in 1..Len(cs)}

\* ListAll over the complaints that are not completed
ListAllOpen(s, ok, tie) ==
  /\ LET r == Arrive("listAll", 0, NoBody, NoFile)
     IN /\ nreq' = nreq + 1
        /\ ok \/ tie = "natural"
        /\ reqs' = [reqs EXCEPT ![s] =
             IF ok
             THEN [Respond(r, 200, "ok", NoDoc) EXCEPT
                     !.out = SortDesc({c \in Records(complaints) : c.status # "completed"},
                                      tie)]
             ELSE Respond(r, 500, "store", NoDoc)]
  /\ UNCHANGED <<activities, nextAct, rev, limit, now, nextRand, complaints, media,
                 completedOnce>>

\* GET /api/complaints
ListAll(s, ok, tie) ==
  /\ LET r == Arrive("listAll", 0, NoBody, NoFile)
     IN /\ nreq' = nreq + 1
        /\ ok \/ tie = "natural"
        /\ reqs' = [reqs EXCEPT ![s] =
             IF ok
             THEN [Respond(r, 200, "ok", NoDoc) EXCEPT
                     !.out = SortDesc(Records(complaints), tie)]
             ELSE Respond(r, 500, "store", NoDoc)]
  /\ UNCHANGED <<activities, nextAct, rev, limit, now, nextRand, complaints, media,
                 completedOnce>>

\* GET /api/complaints-with-images
ListWithImages(s, ok, tie) ==
  /\ LET r == Arrive("listWithImages", 0, NoBody, NoFile)
     IN /\ nreq' = nreq + 1
        /\ ok \/ tie = "natural"
        /\ reqs' = [reqs EXCEPT ![s] =
             IF ok
             THEN [Respond(r, 200, "ok", NoDoc) EXCEPT
                     !.out = Limit(SortDesc({c \in Records(complaints) : HasImage(c)}, tie),
                                   ListLimit)]
             ELSE Respond(r, 500, "store", NoDoc)]
  /\ UNCHANGED <<activities, nextAct, rev, limit, now, nextRand, complaints, media,
                 completedOnce>>

\* CountDocuments with completed computed as the rest of the total
CountDocumentsBySubtraction(k) ==
  LET n(S) == Cardinality(S)
      all == Records(complaints)
  IN CASE k = 1 -> n(all)
       [] k = 2 -> n({c \in all : c.status = "pending"})
       [] k = 3 -> n({c \in all : c.status = "in-progress"})
       [] k = 4 -> n(all) - n({c \in all : c.status \in {"pending", "in-progress"}})
       [] OTHER -> n({c \in all : HasImage(c)})

\* the k-th countDocuments of GET /api/complaints-stats
CountDocuments(k) ==
  Cardinality(
    CASE k = 1 -> Records(complaints)
      [] k = 2 -> {c \in Records(complaints) : c.status = "pending"}
      [] k = 3 -> {c \in Records(complaints) : c.status = "in-progress"}
      [] k = 4 -> {c \in Records(complaints) : c.status = "completed"}
      [] OTHER -> {c \in Records(complaints) : HasImage(c)})

\* GET /api/complaints-stats, up to its first await
Stats(s) ==
  /\ nreq' = nreq + 1
  /\ reqs' = [reqs EXCEPT ![s] = [Arrive("stats", 0, NoBody, NoFile) EXCEPT !.pc = "count"]]
  /\ UNCHANGED <<activities, nextAct, rev, limit, now, nextRand, complaints, media,
                 completedOnce>>

\* one countDocuments of GET /api/complaints-stats settles; after the fifth
\* the handler answers {total, pending, inProgress, completed, withImages}
Count(s, ok) ==
  /\ LET r == reqs[s]
         out == Append(r.out, CountDocuments(Len(r.out) + 1))
     IN reqs' = [reqs EXCEPT ![s] =
          IF ~ok THEN [Respond(r, 500, "store", NoDoc) EXCEPT !.out = <<>>]
          ELSE IF Len(out) = 5 THEN [Respond(r, 200, "ok", NoDoc) EXCEPT !.out = out]
          ELSE [r EXCEPT !.out = out]]
  /\ UNCHANGED <<activities, nextAct, rev, limit, now, nextRand, nreq, complaints, media,
                 completedOnce>>

(* -------------------------- activity routes ---------------------------- *)
\* req.body of an activity request; date NoTime when the body has none
ActBody(title, description, date) ==
  [title |-> title, description |-> description, date |-> date]

ActBodies ==
  {ActBody("camp", "health camp", NoTime),
   ActBody("road", "road repair", 0),
   ActBody("", "health camp", NoTime),
   ActBody("camp", Absent, NoTime),
   ActBody(Absent, Absent, 0)}

NoActBody == ActBody(Absent, Absent, NoTime)

NoActivity == [id |-> 0, title |-> Absent, description |-> Absent, date |-> NoTime]

\* new Activity({...}): date defaults to Date.now
Activity(id, title, description, date, t) ==
  [id |-> id, title |-> title, description |-> description,
   date |-> IF date = NoTime THEN t ELSE date]

\* activitySchema: title and description are required
ActivityValid(a) == ~Falsy(a.title) /\ ~Falsy(a.description)

\* ids a caller can send: malformed, every id ever assigned, and one never assigned
ActIds == {BadId} \cup (1..nextAct)

\* Activity.findById...: the stored activity of that id, NoActivity when none
FindActivity(id) ==
  IF \E a \in activities : a.id = id
  THEN CHOOSE a \in activities : a.id = id
  ELSE NoActivity

\* an activity persisted by an earlier POST /api/activities
SeedActivity == Activity(1, "camp", "health camp", NoTime, 0)

\* POST /api/activities
CreateActivity(s, body, ok, t) ==
  /\ nreq' = nreq + 1
  /\ LET r == Arrive("createActivity", 0, body, NoFile)
         a == IF rev = "diskA"
              THEN Activity(nextAct, body.title, body.description, NoTime, t)
              ELSE Activity(nextAct, body.title, body.description, body.date, t)
         rejected == IF rev = "diskA"
                     THEN Falsy(body.title) \/ Falsy(body.description)
                     ELSE ~ActivityValid(a)
     IN IF rejected \/ ~ok
        THEN /\ ok \/ ~rejected
             /\ t = now
             /\ reqs' = [reqs EXCEPT ![s] =
                  Respond(r, IF rev = "diskA" /\ ~rejected THEN 500 ELSE 400,
                          IF rejected THEN "validation" ELSE "store", NoDoc)]
             /\ UNCHANGED <<activities, nextAct, now>>
        ELSE /\ t = now \/ a.date = t
             /\ now' = t
             /\ activities' = activities \cup {a}
             /\ nextAct' = nextAct + 1
             /\ reqs' = [reqs EXCEPT ![s] = [Respond(r, 201, "ok", NoDoc) EXCEPT !.out = <<a>>]]
  /\ UNCHANGED <<rev, limit, nextRand, complaints, media, completedOnce>>

\* the update document of PUT /api/activities/:id applied by findByIdAndUpdate:
\* { title, description } in diskA, req.body as it is in the other revisions
ActivityUpdate(a, body) ==
  IF rev = "diskA"
  THEN [a EXCEPT !.title = body.title, !.description = body.description]
  ELSE [a EXCEPT !.title = IF body.title = Absent THEN @ ELSE body.title,
                 !.description = IF body.description = Absent THEN @ ELSE body.description,
                 !.date = IF body.date = NoTime THEN @ ELSE body.date]

\* PUT /api/activities/:id
UpdateActivity(s, id, body, ok) ==
  /\ nreq' = nreq + 1
  /\ LET r == Arrive("updateActivity", id, body, NoFile)
         old == FindActivity(id)
         new == ActivityUpdate(old, body)
     IN IF rev = "diskA" /\ (Falsy(body.title) \/ Falsy(body.description))
        THEN /\ ok
             /\ reqs' = [reqs EXCEPT ![s] = Respond(r, 400, "validation", NoDoc)]
             /\ UNCHANGED activities
        ELSE IF id = BadId \/ ~ok
        THEN /\ ok \/ id # BadId
             /\ reqs' = [reqs EXCEPT ![s] =
                  Respond(r, IF rev = "diskA" THEN 500 ELSE 400,
                          IF id = BadId THEN "cast" ELSE "store", NoDoc)]
             /\ UNCHANGED activities
        ELSE IF old = NoActivity
        THEN /\ reqs' = [reqs EXCEPT ![s] =
                  IF rev = "diskA" THEN Respond(r, 404, "not_found", NoDoc)
                  ELSE Respond(r, 200, "null", NoDoc)]
             /\ UNCHANGED activities
        ELSE /\ activities' = (activities \ {old}) \cup {new}
             /\ reqs' = [reqs EXCEPT ![s] =
                  [Respond(r, 200, "ok", NoDoc) EXCEPT !.out = <<new>>]]
  /\ UNCHANGED <<nextAct, rev, limit, now, nextRand, complaints, media, completedOnce>>

\* DELETE /api/activities/:id
DeleteActivity(s, id, ok) ==
  /\ nreq' = nreq + 1
  /\ LET r == Arrive("deleteActivity", id, NoActBody, NoFile)
         old == FindActivity(id)
     IN IF id = BadId \/ ~ok
        THEN /\ ok \/ id # BadId
             /\ reqs' = [reqs EXCEPT ![s] =
                  Respond(r, 500, IF id = BadId THEN "cast" ELSE "store", NoDoc)]
             /\ UNCHANGED activities
        ELSE IF old = NoActivity
        THEN /\ reqs' = [reqs EXCEPT ![s] =
                  IF rev = "diskA" THEN Respond(r, 404, "not_found", NoDoc)
                  ELSE Respond(r, 200, "ok", NoDoc)]
             /\ UNCHANGED activities
        ELSE /\ activities' = activities \ {old}
             /\ reqs' = [reqs EXCEPT ![s] = Respond(r, 200, "ok", NoDoc)]
  /\ UNCHANGED <<nextAct, rev, limit, now, nextRand, complaints, media, completedOnce>>

\* a comes before b under .sort({ date: -1 })
ActBefore(a, b, tie) ==
  \/ a.date > b.date
  \/ /\ a.date = b.date
     /\ IF tie = "natural" THEN a.id < b.id ELSE a.id > b.id

RECURSIVE SortActivities(_, _)
\* Activity.find().sort({ date: -1 })
SortActivities(S, tie) ==
  IF S = {} THEN <<>>
  ELSE LET first == CHOOSE a \in S : \A b \in S \ {a} : ActBefore(a, b, tie)
       IN <<first>> \o SortActivities(S \ {first}, tie)

\* GET /api/activities
ListActivities(s, ok, tie) ==
  /\ nreq' = nreq + 1
  /\ ok \/ tie = "natural"
  /\ LET r == Arrive("listActivities", 0, NoActBody, NoFile)
     IN reqs' = [reqs EXCEPT ![s] =
          IF ok
          THEN [Respond(r, 200, "ok", NoDoc) EXCEPT !.out = SortActivities(activities, tie)]
          ELSE Respond(r, 500, "store", NoDoc)]
  /\ UNCHANGED <<activities, nextAct, rev, limit, now, nextRand, complaints, media,
                 completedOnce>>

Next ==
  \/ \E s \in Slots : Close(s)
  \/ \E s \in Slots :
       /\ CanStart(s)
       /\ \E body \in Bodies, ok \in BOOLEAN, t \in Readings : Create(s, body, ok, t)
  \/ \E s \in Slots :
       /\ CanStart(s)
       /\ \E id \in Ids, status \in StatusInputs, ok \in BOOLEAN, t \in Readings :
            UpdateStatus(s, id, status, ok, t)
  \/ \E s \in Slots :
       /\ CanStart(s)
       /\ \E body \in Bodies, file \in Files, delOk, delOk2, forwarded \in BOOLEAN,
             t \in Readings :
            CreateWithBeforeImage(s, body, file, delOk, delOk2, forwarded, t)
  \/ \E s \in Slots :
       /\ CanStart(s)
       /\ \E op \in {"attachBeforeImage", "attachAfterImage"}, id \in Ids, file \in Files :
            AttachImage(s, op, id, file)
  \/ \E s \in Slots :
       /\ reqs[s].pc = "find"
       /\ \E ok, delOk \in BOOLEAN, t \in Readings : FindById(s, ok, delOk, t)
  \/ \E s \in Slots :
       /\ reqs[s].pc = "destroy"
       /\ \E ok \in BOOLEAN, t \in Readings : Destroy(s, ok, t)
  \/ \E s \in Slots :
       /\ reqs[s].pc = "upload"
       /\ \E ok \in BOOLEAN : Upload(s, ok)
  \/ \E s \in Slots :
       /\ reqs[s].pc = "save"
       /\ \E ok, delOk, forwarded \in BOOLEAN : Save(s, ok, delOk, forwarded)
  \/ \E s \in Slots :
       /\ CanStart(s)
       /\ \E ok \in BOOLEAN, tie \in TieOrders : ListAll(s, ok, tie)
  \/ \E s \in Slots :
       /\ CanStart(s)
       /\ \E ok \in BOOLEAN, tie \in TieOrders : ListWithImages(s, ok, tie)
  \/ \E s \in Slots : CanStart(s) /\ Stats(s)
  \/ \E s \in Slots :
       /\ reqs[s].pc = "count"
       /\ \E ok \in BOOLEAN : Count(s, ok)

Spec == Init /\ [][Next]_vars

\* the activity routes, on a store that is empty or holds an earlier activity
ActInit ==
  /\ rev \in Revisions
  /\ limit = 1
  /\ now = 0
  /\ nextRand = 1
  /\ nreq = 0
  /\ complaints = <<>>
  /\ media = {}
  /\ reqs = [s \in Slots |-> IdleReq]
  /\ completedOnce = {}
  /\ \E seeded \in BOOLEAN :
       /\ activities = IF seeded THEN {SeedActivity} ELSE {}
       /\ nextAct = IF seeded THEN 2 ELSE 1

ActNext ==
  \/ \E s \in Slots : Close(s)
  \/ \E s \in Slots :
       /\ CanStart(s)
       /\ \E body \in ActBodies, ok \in BOOLEAN, t \in Readings : CreateActivity(s, body, ok, t)
  \/ \E s \in Slots :
       /\ CanStart(s)
       /\ \E id \in ActIds, body \in ActBodies, ok \in BOOLEAN : UpdateActivity(s, id, body, ok)
  \/ \E s \in Slots :
       /\ CanStart(s)
       /\ \E id \in ActIds, ok \in BOOLEAN : DeleteActivity(s, id, ok)
  \/ \E s \in Slots :
       /\ CanStart(s)
       /\ \E ok \in BOOLEAN, tie \in TieOrders : ListActivities(s, ok, tie)

ActSpec == ActInit /\ [][ActNext]_vars

(* ------------------- the read routes on larger stores ------------------- *)
StoreSizes == (0..4) \cup ((ListLimit - 1)..MaxStore)

\* how the clock advanced between the creations
StoreOrders == {"asc", "same", "pairs"}

\* which complaints had an image attached
ImagePatterns == {"all", "none", "first", "odd", "after"}

CreatedAt(i, order) ==
  CASE order = "asc" -> i
    [] order = "same" -> 1
    [] OTHER -> (i + 1) \div 2

StatusAt(i) ==
  CASE i % 5 \in {1, 2} -> "pending"
    [] i % 5 = 3 -> "in-progress"
    [] i % 5 = 4 -> "completed"
    [] OTHER -> "other"

\* the asset an attach to complaint i, made after all creations, stored
StoredAsset(i, n, folder) ==
  IF rev \in DiskRevs THEN DiskName(i) ELSE CloudName(rev, folder, n + i, i, i)

\* complaint i of a store of n complaints: persisted by POST /api/complaints,
\* then given an image by upload-before or upload-after
StoredComplaint(i, n, order, images) ==
  LET base == Complaint(i, GoodBody(Absent, StatusAt(i)), NoAsset, NoAsset, NoFile,
                        CreatedAt(i, order))
      png == File("image/png", ".png", 1)
  IN IF images = "all" \/ (images = "first" /\ i = 1) \/ (images = "odd" /\ i % 2 = 1)
     THEN AssignBefore(base, rev, StoredAsset(i, n, "before"), png)
     ELSE IF images = "after" /\ i % 2 = 0
     THEN AssignAfter(base, rev, StoredAsset(i, n, "after"), png, n + i)
     ELSE base

StoredActivity(i, order) == Activity(i, "camp", "health camp", CreatedAt(i, order), 0)

ReadInit ==
  /\ rev \in Revisions
  /\ limit = 1
  /\ nreq = 0
  /\ reqs = [s \in Slots |-> IdleReq]
  /\ \E n \in StoreSizes, order \in StoreOrders, images \in ImagePatterns :
       /\ complaints = [i \in 1..n |-> StoredComplaint(i, n, order, images)]
       /\ media = ({complaints[i].imageBefore : i \in 1..n}
                     \cup {complaints[i].imageAfter : i \in 1..n}) \ {NoAsset}
       /\ now = 2 * n
       /\ nextRand = n + 1
       /\ completedOnce = Completed(complaints)
       /\ activities = {StoredActivity(i, order) : i \in 1..(IF n < 3 THEN n ELSE 3)}
       /\ nextAct = (IF n < 3 THEN n ELSE 3) + 1

ReadNext ==
  \/ \E s \in Slots : Close(s)
  \/ \E s \in Slots :
       /\ CanStart(s)
       /\ \E ok \in BOOLEAN, tie \in TieOrders : ListAll(s, ok, tie)
  \/ \E s \in Slots :
       /\ CanStart(s)
       /\ \E ok \in BOOLEAN, tie \in TieOrders : ListWithImages(s, ok, tie)
  \/ \E s \in Slots : CanStart(s) /\ Stats(s)
  \/ \E s \in Slots :
       /\ reqs[s].pc = "count"
       /\ \E ok \in BOOLEAN : Count(s, ok)
  \/ \E s \in Slots :
       /\ CanStart(s)
       /\ \E ok \in BOOLEAN, tie \in TieOrders : ListActivities(s, ok, tie)

ReadSpec == ReadInit /\ [][ReadNext]_vars

(* ------------------------ overlapping requests -------------------------- *)
\* the assets the two attaches to the seeded complaint stored
SeedBefore == IF rev \in DiskRevs THEN DiskName(1) ELSE CloudName(rev, "before", 1, 1, 1)

SeedAfter == IF rev \in DiskRevs THEN DiskName(2) ELSE CloudName(rev, "after", 2, 1, 2)

\* the seeded complaint after an upload-before and an upload-after
SeedResolved ==
  LET png == File("image/png", ".png", 1)
  IN AssignAfter(AssignBefore(Seed, rev, SeedBefore, png), rev, SeedAfter, png, 2)

\* what the callers of the overlapping requests send
ConcBodies == {GoodBody(Absent, Absent), GoodBody("ward 4", "completed")}

ConcFiles == {NoFile, File("image/png", ".png", 1)}

\* the server with every request slot usable: a request arrives while others
\* are between two awaits
ConcInit ==
  /\ rev \in Revisions
  /\ limit = MaxReq
  /\ nreq = 0
  /\ reqs = [s \in Slots |-> IdleReq]
  /\ activities = {}
  /\ nextAct = 1
  /\ \E resolved \in BOOLEAN :
       /\ complaints = IF resolved THEN <<SeedResolved>> ELSE <<Seed>>
       /\ media = IF resolved THEN {SeedBefore, SeedAfter} ELSE {}
       /\ now = IF resolved THEN 2 ELSE 0
       /\ nextRand = IF resolved THEN 3 ELSE 1
  /\ completedOnce = Completed(complaints)

ConcNext ==
  \/ \E s \in Slots : Close(s)
  \/ \E s \in Slots :
       /\ CanStart(s)
       /\ \E body \in ConcBodies, ok \in BOOLEAN, t \in Readings : Create(s, body, ok, t)
  \/ \E s \in Slots :
       /\ CanStart(s)
       /\ \E id \in Ids, status \in StatusEnum, ok \in BOOLEAN, t \in Readings :
            UpdateStatus(s, id, status, ok, t)
  \/ \E s \in Slots :
       /\ CanStart(s)
       /\ \E op \in {"attachBeforeImage", "attachAfterImage"}, id \in Ids, file \in ConcFiles :
            AttachImage(s, op, id, file)
  \/ \E s \in Slots :
       /\ reqs[s].pc = "find"
       /\ \E ok, delOk \in BOOLEAN, t \in Readings : FindById(s, ok, delOk, t)
  \/ \E s \in Slots :
       /\ reqs[s].pc = "destroy"
       /\ \E ok \in BOOLEAN, t \in Readings : Destroy(s, ok, t)
  \/ \E s \in Slots :
       /\ reqs[s].pc = "upload"
       /\ \E ok \in BOOLEAN : Upload(s, ok)
  \/ \E s \in Slots :
       /\ reqs[s].pc = "save"
       /\ \E ok \in BOOLEAN : Save(s, ok, TRUE, TRUE)
  \/ \E s \in Slots : CanStart(s) /\ Stats(s)
  \/ \E s \in Slots :
       /\ reqs[s].pc = "count"
       /\ \E ok \in BOOLEAN : Count(s, ok)

ConcSpec == ConcInit /\ [][ConcNext]_vars

(* ------------------------------- claims -------------------------------- *)
Uploads == {"createWithBeforeImage", "attachBeforeImage", "attachAfterImage"}

Attaches == {"attachBeforeImage", "attachAfterImage"}

\* a request that has been answered
Done(r) == r.pc = "done"

\* the assets some persisted complaint refers to
Referenced ==
  UNION {{complaints[i].imageBefore, complaints[i].imageAfter} : i \in 1..Len(complaints)}

\* C1: a successful attachAfterImage on an existing complaint leaves the
\* persisted record with status completed and resolvedAt set to a time not
\* before createdAt, whatever its status was when the request read it.
C1_AttachAfterCompletes ==
  \A s \in Slots :
    LET r == reqs[s]
    IN (Done(r) /\ r.op = "attachAfterImage" /\ r.code = 200)
       => /\ Exists(r.id)
          /\ complaints[r.id].status = "completed"
          /\ complaints[r.id].resolvedAt # NoTime
          /\ complaints[r.id].resolvedAt >= complaints[r.id].createdAt

\* C1, its case: attachAfterImage has succeeded on a complaint that was in-progress
C1_Witness ==
  \E s \in Slots :
    /\ Done(reqs[s]) /\ reqs[s].op = "attachAfterImage" /\ reqs[s].code = 200
    /\ reqs[s].orig.status = "in-progress"
    /\ complaints[reqs[s].id].status = "completed"

\* C2: every persisted complaint has resolvedAt set if and only if its status
\* has been completed at least once since its creation (a creation with the
\* caller's status completed included).
C2_ResolvedIffCompletedOnce ==
  \A i \in 1..Len(complaints) :
    (complaints[i].resolvedAt # NoTime) <=> (i \in completedOnce)

\* C3: a successful updateStatus(id, completed) sets resolvedAt, a successful
\* updateStatus(id, s) with s other than completed leaves resolvedAt as it was,
\* and no request clears a resolvedAt that was set when it arrived.
C3_ResolvedAtKept ==
  \A s \in Slots :
    LET r == reqs[s]
    IN /\ (Done(r) /\ r.op = "updateStatus" /\ r.code = 200)
          => IF r.body.status = "completed"
             THEN complaints[r.id].resolvedAt # NoTime
             ELSE complaints[r.id].resolvedAt = r.cs0[r.id].resolvedAt
       /\ r.pc # "idle"
          => \A i \in 1..Len(r.cs0) :
               r.cs0[i].resolvedAt # NoTime => complaints[i].resolvedAt # NoTime

\* C3, its case: updateStatus with a status other than completed has succeeded
\* on a complaint whose resolvedAt an earlier updateStatus(id, completed) set
C3_Witness ==
  \E s \in Slots :
    /\ Done(reqs[s]) /\ reqs[s].op = "updateStatus" /\ reqs[s].code = 200
    /\ reqs[s].body.status = "pending"
    /\ reqs[s].orig.resolvedAt # NoTime
    /\ complaints[reqs[s].id].resolvedAt = reqs[s].orig.resolvedAt

\* C4 as stated: every successful create whose phoneNumber, category and
\* description are non-empty persists and returns a record with status
\* pending, resolvedAt unset and imageBefore unset.
C4_CreateAlwaysPending ==
  \A s \in Slots :
    LET r == reqs[s]
    IN (Done(r) /\ r.op = "create" /\ r.code = 201 /\ ~MissingFields(r.body))
       => /\ r.doc.status = "pending"
          /\ r.doc.resolvedAt = NoTime
          /\ r.doc.imageBefore = NoAsset
          /\ complaints[r.doc.id] = r.doc

\* C4 amended: a create whose phoneNumber, category and description are
\* non-empty and whose status is absent or empty persists and returns a record
\* with status pending, resolvedAt unset and imageBefore unset; with a status
\* given, the record carries that status if it is one of the enum, and the
\* request fails with 500 and persists nothing if it is not.
C4_CreateDefaultsPending ==
  \A s \in Slots :
    LET r == reqs[s]
    IN (Done(r) /\ r.op = "create" /\ ~MissingFields(r.body))
       => IF r.code = 201
          THEN /\ r.doc.status = (IF Falsy(r.body.status) THEN "pending" ELSE r.body.status)
               /\ r.doc.status \in StatusEnum
               /\ r.doc.resolvedAt = NoTime
               /\ r.doc.imageBefore = NoAsset
               /\ Len(complaints) = Len(r.cs0) + 1
               /\ complaints[r.doc.id] = r.doc
          ELSE r.code = 500 /\ complaints = r.cs0

\* C4, its case: a create without a status has been answered 201
C4_Witness ==
  \E s \in Slots :
    /\ Done(reqs[s]) /\ reqs[s].op = "create" /\ reqs[s].code = 201
    /\ Falsy(reqs[s].body.status)
    /\ complaints[reqs[s].doc.id].status = "pending"

\* C5: a create or createWithBeforeImage request in which phoneNumber,
\* category or description is absent or empty is answered 400, whatever the
\* other fields and the file are, and leaves the persisted complaints as they were.
C5_MissingFieldIs400 ==
  \A s \in Slots :
    LET r == reqs[s]
    IN (r.op \in {"create", "createWithBeforeImage"} /\ MissingFields(r.body))
       => Done(r) /\ r.code = 400 /\ complaints = r.cs0

\* C6: a successful attachBeforeImage on a complaint that already holds a
\* before image leaves imageBefore holding the reference of this call, which
\* differs from the one it replaces, and status and resolvedAt as they were.
C6_AttachBeforeReplaces ==
  \A s \in Slots :
    LET r == reqs[s]
    IN (Done(r) /\ r.op = "attachBeforeImage" /\ r.code = 200)
       => /\ complaints[r.id].imageBefore = r.asset
          /\ r.asset # r.cs0[r.id].imageBefore
          /\ r.asset # NoAsset
          /\ complaints[r.id].status = r.cs0[r.id].status
          /\ complaints[r.id].resolvedAt = r.cs0[r.id].resolvedAt

\* C6, its case: the second of two successful attachBeforeImage calls on
\* complaint 1 has been answered (cloudA names an attached asset after the id)
C6_Witness ==
  \E s \in Slots :
    /\ Done(reqs[s]) /\ reqs[s].op = "attachBeforeImage" /\ reqs[s].code = 200
    /\ rev = "cloudA" /\ reqs[s].id = 1
    /\ reqs[s].orig.imageBefore # NoAsset
    /\ reqs[s].orig.imageBefore.k = 1
    /\ complaints[1].imageBefore = reqs[s].asset

\* C7: an upload whose file type is not in the accepted set is answered 400
\* with the unsupported-media error, no complaint is created or modified and
\* no asset is added to the Media Store.
C7_BadTypeRejected ==
  \A s \in Slots :
    LET r == reqs[s]
    IN (/\ r.op \in Uploads
        /\ r.file.present
        /\ r.file.mimetype \notin AllowedMimes(rev)
        /\ r.file.ext \notin AllowedExtensions(rev))
       => /\ Done(r) /\ r.code = 400 /\ r.kind = "media"
          /\ complaints = r.cs0
          /\ media = r.ms0

\* C7, its case: an attach of a PDF to an existing complaint has been refused
\* while the Media Store held an asset
C7_Witness ==
  \E s \in Slots :
    /\ Done(reqs[s]) /\ reqs[s].op \in Attaches /\ reqs[s].kind = "media"
    /\ reqs[s].file.mimetype = "application/pdf"
    /\ Exists(reqs[s].id)
    /\ media # {}

\* C8: in every revision an attach whose deletion of the superseded asset
\* failed, and whose upload and record write did not, stores the new image,
\* persists the new reference and is answered with success.
C8_DeleteFailureSwallowed ==
  \A s \in Slots :
    LET r == reqs[s]
    IN (Done(r) /\ r.op \in Attaches /\ r.delErr /\ r.kind \notin {"upload", "save"})
       => /\ r.code = 200
          /\ r.asset \in media
          /\ r.asset \in {complaints[r.id].imageBefore, complaints[r.id].imageAfter}

\* C9: an attach (with an accepted file) or an updateStatus whose id is well
\* formed and belongs to no complaint, and whose lookup did not fail, is
\* answered 404 and leaves the complaints and the Media Store as they were.
C9_UnknownIdIs404 ==
  \A s \in Slots :
    LET r == reqs[s]
    IN (/\ Done(r)
        /\ r.op \in Attaches \cup {"updateStatus"}
        /\ r.id = Len(r.cs0) + 1
        /\ r.kind \notin {"lookup", "store"}
        /\ r.op \in Attaches => (r.file.present /\ MulterError(rev, r.file) = ""))
       => /\ r.code = 404
          /\ complaints = r.cs0
          /\ media = r.ms0

\* C10 as stated: in every revision, when createWithBeforeImage or an attach
\* has stored the image and the record write fails, the request is answered
\* 500 and the stored asset stays in the Media Store, unreferenced.
C10_NoCleanupAnywhere ==
  \A s \in Slots :
    LET r == reqs[s]
    IN (Done(r) /\ r.op \in Uploads /\ r.kind = "save")
       => /\ r.code = 500
          /\ r.asset \in media
          /\ r.asset \notin Referenced

\* C10 amended: when an attach in any revision, or createWithBeforeImage in a
\* revision other than diskB, has stored the image and the record write fails,
\* the request is answered 500 and the stored asset stays in the Media Store,
\* unreferenced; in diskB the catch block of createWithBeforeImage deletes the
\* uploaded file, and when that deletion succeeds the request is answered 500
\* and the asset is gone.
C10_NoCleanupButDiskBCreate ==
  \A s \in Slots :
    LET r == reqs[s]
    IN (Done(r) /\ r.op \in Uploads /\ r.kind = "save")
       => /\ r.code = 500
          /\ complaints = r.cs0
          /\ r.asset \notin Referenced
          /\ r.asset # NoAsset
          /\ (r.asset \in media) <=> ~(rev = "diskB" /\ r.op = "createWithBeforeImage")

\* C10, its case: the record write of an attachAfterImage has failed after the
\* image was stored
C10_Witness ==
  \E s \in Slots :
    /\ Done(reqs[s]) /\ reqs[s].op = "attachAfterImage" /\ reqs[s].kind = "save"
    /\ reqs[s].asset \in media
    /\ reqs[s].asset \notin reqs[s].ms0

\* C11: in every revision an update or a delete of an activity whose
\* (well-formed) id is not in the store, the store answering, is answered 404
\* and leaves the activity collection as it was.
C11_UnknownActivityIs404 ==
  \A s \in Slots :
    LET r == reqs[s]
    IN (/\ Done(r)
        /\ r.op \in {"updateActivity", "deleteActivity"}
        /\ r.id # BadId
        /\ \A a \in r.as0 : a.id # r.id
        /\ r.kind # "store"
        /\ r.op = "updateActivity" => ActivityValid(r.body))
       => r.code = 404 /\ activities = r.as0

\* C12: in every revision a create or an update of an activity without a
\* non-empty title and a non-empty description is answered 400 and changes no
\* stored activity; a successful update replaces exactly title and description
\* and leaves date and id; every stored activity has a non-empty title and
\* description.
C12_ActivityFieldsRequired ==
  /\ \A a \in activities : ActivityValid(a)
  /\ \A s \in Slots :
       LET r == reqs[s]
       IN /\ (/\ Done(r)
              /\ r.op \in {"createActivity", "updateActivity"}
              /\ ~ActivityValid(r.body))
             => r.code = 400 /\ activities = r.as0
          /\ (Done(r) /\ r.op = "updateActivity" /\ r.code = 200 /\ r.kind = "ok")
             => \E old \in r.as0 :
                  /\ old.id = r.id
                  /\ r.out[1] = [old EXCEPT !.title = r.body.title,
                                            !.description = r.body.description]
                  /\ activities = (r.as0 \ {old}) \cup {r.out[1]}

\* the number of stored complaints that satisfy P, counted by id
CountIds(P(_)) == Cardinality({i \in 1..Len(complaints) : P(complaints[i])})

IsPending(c) == c.status = "pending"

IsInProgress(c) == c.status = "in-progress"

IsCompleted(c) == c.status = "completed"

WithImage(c) == ~(c.imageBefore = NoAsset /\ c.imageAfter = NoAsset)

AnyComplaint(c) == TRUE

\* C13: with no other request running, stats answers total = the number of
\* complaints, pending / inProgress / completed = the number of complaints
\* with exactly that status, withImages = the number with imageBefore or
\* imageAfter set; for statuses pending, pending, in-progress, completed with
\* an image on one pending complaint that is 4, 2, 1, 1, 1.
C13_StatsCounts ==
  \A s \in Slots :
    LET r == reqs[s]
    IN (Done(r) /\ r.op = "stats" /\ r.code = 200)
       => /\ r.out = <<CountIds(AnyComplaint), CountIds(IsPending), CountIds(IsInProgress),
                       CountIds(IsCompleted), CountIds(WithImage)>>
          /\ (/\ Len(complaints) = 4
              /\ [i \in 1..4 |-> complaints[i].status]
                   = <<"pending", "pending", "in-progress", "completed">>
              /\ {i \in 1..4 : WithImage(complaints[i])} = {1})
             => r.out = <<4, 2, 1, 1, 1>>

\* C13, its case: stats has answered 4, 2, 1, 1, 1 on the store of the example
C13_Witness ==
  \E s \in Slots :
    /\ Done(reqs[s]) /\ reqs[s].op = "stats"
    /\ Len(complaints) = 4
    /\ {i \in 1..4 : WithImage(complaints[i])} = {1}
    /\ reqs[s].out = <<4, 2, 1, 1, 1>>

\* the list is in descending order of createdAt
Descending(out) == \A j, k \in 1..Len(out) : j < k => out[j].createdAt >= out[k].createdAt

\* the list holds stored complaints, none twice
StoredOnce(out) ==
  /\ \A k \in 1..Len(out) : out[k].id \in 1..Len(complaints) /\ out[k] = complaints[out[k].id]
  /\ \A j, k \in 1..Len(out) : j # k => out[j].id # out[k].id

\* C14: listWithImages returns only complaints that have imageBefore or
\* imageAfter set, at most 50 of them, in descending order of createdAt, and
\* the newest of them when more than 50 qualify.
C14_WithImagesCapped ==
  \A s \in Slots :
    LET r == reqs[s]
        in == {r.out[k].id : k \in 1..Len(r.out)}
        qualify == {i \in 1..Len(complaints) : WithImage(complaints[i])}
    IN (Done(r) /\ r.op = "listWithImages" /\ r.code = 200)
       => /\ StoredOnce(r.out)
          /\ in \subseteq qualify
          /\ Len(r.out) <= 50
          /\ Len(r.out) = (IF Cardinality(qualify) < 50 THEN Cardinality(qualify) ELSE 50)
          /\ Descending(r.out)
          /\ \A i \in qualify \ in, j \in in :
               complaints[i].createdAt <= complaints[j].createdAt

\* C14, its case: listWithImages has answered 50 records out of more that qualify
C14_Witness ==
  \E s \in Slots :
    /\ Done(reqs[s]) /\ reqs[s].op = "listWithImages" /\ reqs[s].code = 200
    /\ Len(reqs[s].out) = 50
    /\ CountIds(WithImage) > 50
    /\ reqs[s].out[1].createdAt > reqs[s].out[50].createdAt

\* C20: listAll returns every persisted complaint exactly once in descending
\* order of createdAt, and the activities list returns every activity in
\* descending order of date.
C20_ListsSorted ==
  \A s \in Slots :
    LET r == reqs[s]
    IN /\ (Done(r) /\ r.op = "listAll" /\ r.code = 200)
          => /\ StoredOnce(r.out)
             /\ Len(r.out) = Len(complaints)
             /\ Descending(r.out)
       /\ (Done(r) /\ r.op = "listActivities" /\ r.code = 200)
          => /\ {r.out[k] : k \in 1..Len(r.out)} = activities
             /\ Len(r.out) = Cardinality(activities)
             /\ \A j, k \in 1..Len(r.out) : j < k => r.out[j].date >= r.out[k].date

\* C20, its case: listAll has answered a list that is not in the order of creation
C20_Witness ==
  \E s \in Slots :
    /\ Done(reqs[s]) /\ reqs[s].op = "listAll" /\ reqs[s].code = 200
    /\ Len(reqs[s].out) >= 3
    /\ reqs[s].out[1].id > reqs[s].out[2].id
    /\ reqs[s].out[1].createdAt > reqs[s].out[3].createdAt

\* C15: no operation removes a complaint: while a request runs and after it,
\* every complaint persisted when it arrived is still persisted under the
\* same id, and listAll returns every one of them.
C15_NeverRemoved ==
  \A s \in Slots :
    LET r == reqs[s]
    IN /\ r.pc # "idle"
          => \A i \in 1..Len(r.cs0) :
               i <= Len(complaints) /\ complaints[i].id = r.cs0[i].id
       /\ (Done(r) /\ r.op = "listAll" /\ r.code = 200)
          => \A i \in 1..Len(r.cs0) : \E k \in 1..Len(r.out) : r.out[k].id = r.cs0[i].id

\* C15, its case: listAll has returned the complaint that the request before
\* it created as completed, next to the one that was stored before
C15_Witness ==
  \E s \in Slots :
    /\ Done(reqs[s]) /\ reqs[s].op = "listAll" /\ reqs[s].code = 200
    /\ nreq = 2
    /\ Len(reqs[s].out) = 2
    /\ \E k \in 1..2 : reqs[s].out[k].id = 2 /\ reqs[s].out[k].status = "completed"

\* C16: the status of every persisted complaint is one of pending,
\* in-progress, completed.
C16_StatusInEnum ==
  \A i \in 1..Len(complaints) : complaints[i].status \in StatusEnum

\* the fields of a complaint that are fixed at creation
Fixed(c) == <<c.id, c.createdAt, c.phoneNumber, c.category, c.description, c.location>>

\* C17: no updateStatus, attachBeforeImage or attachAfterImage (nor any other
\* request) changes the createdAt, id, phoneNumber, category, description or
\* location of a complaint that was persisted when it arrived.
C17_CreatedAtFixed ==
  \A s \in Slots :
    LET r == reqs[s]
    IN r.pc # "idle"
       => \A i \in 1..Len(r.cs0) :
            i <= Len(complaints) /\ Fixed(complaints[i]) = Fixed(r.cs0[i])

\* C17, its case: an attachAfterImage has changed a complaint
C17_Witness ==
  \E s \in Slots :
    /\ Done(reqs[s]) /\ reqs[s].op = "attachAfterImage" /\ reqs[s].code = 200
    /\ complaints[reqs[s].id] # reqs[s].cs0[reqs[s].id]
    /\ complaints[reqs[s].id].createdAt = reqs[s].cs0[reqs[s].id].createdAt

\* what a successful createWithBeforeImage leaves, but for the status and the namespace
CreatedWithImage(r) ==
  /\ Len(complaints) = Len(r.cs0) + 1
  /\ \A i \in 1..Len(r.cs0) : complaints[i] = r.cs0[i]
  /\ complaints[Len(complaints)] = r.doc
  /\ r.doc.imageBefore = r.asset
  /\ r.doc.imageType = r.file.mimetype
  /\ r.doc.fileSize = r.file.size
  /\ r.doc.imageAfter = NoAsset
  /\ r.doc.resolvedAt = NoTime
  /\ r.asset \notin r.ms0
  /\ media = r.ms0 \cup {r.asset}

\* C18 as stated: a successful createWithBeforeImage persists exactly one new
\* complaint whose imageBefore is the reference of an asset stored in the
\* "before" namespace, with the file's type and size, imageAfter and
\* resolvedAt unset and status pending, and adds exactly one asset.
C18_CreateWithImagePending ==
  \A s \in Slots :
    LET r == reqs[s]
    IN (Done(r) /\ r.op = "createWithBeforeImage" /\ r.code = 201)
       => /\ CreatedWithImage(r)
          /\ r.asset.folder = "before"
          /\ r.doc.status = "pending"

\* C18 amended: as stated, except that the status is pending when the request
\* gives none and the given one (of the enum) otherwise, and that the asset is
\* in the "before" namespace in the Cloudinary revisions and in the one
\* uploads/complaints directory in the disk revisions.
C18_CreateWithImage ==
  \A s \in Slots :
    LET r == reqs[s]
    IN (Done(r) /\ r.op = "createWithBeforeImage" /\ r.code = 201)
       => /\ CreatedWithImage(r)
          /\ r.asset.folder = (IF rev \in CloudRevs THEN "before" ELSE "disk")
          /\ r.doc.status = (IF Falsy(r.body.status) THEN "pending" ELSE r.body.status)
          /\ r.doc.status \in StatusEnum

\* C18, its case: a createWithBeforeImage without a status has been answered 201
C18_Witness ==
  \E s \in Slots :
    /\ Done(reqs[s]) /\ reqs[s].op = "createWithBeforeImage" /\ reqs[s].code = 201
    /\ Falsy(reqs[s].body.status)
    /\ reqs[s].ms0 # {}
    /\ complaints[Len(complaints)].imageBefore \in media \ reqs[s].ms0

\* C19 as stated: an upload whose image is larger than the revision's limit is
\* rejected with the too-large error, no complaint is created or modified and
\* no asset of it is in the Media Store.
C19_TooLargeAlways ==
  \A s \in Slots :
    LET r == reqs[s]
    IN (r.op \in Uploads /\ r.file.present /\ r.file.size > FileSizeLimit(rev))
       => /\ Done(r) /\ r.code = 400
          /\ r.kind = "too_large"
          /\ complaints = r.cs0
          /\ media = r.ms0

\* C19 amended: an upload whose image is larger than the revision's limit is
\* answered 400, with the too-large error when the file filter accepts its
\* type and with the file filter's error otherwise; no complaint is created or
\* modified and no asset of it is in the Media Store.
C19_TooLargeRejected ==
  \A s \in Slots :
    LET r == reqs[s]
    IN (r.op \in Uploads /\ r.file.present /\ r.file.size > FileSizeLimit(rev))
       => /\ Done(r) /\ r.code = 400
          /\ r.kind = (IF fileFilter(rev, r.file) THEN "too_large" ELSE "media")
          /\ complaints = r.cs0
          /\ media = r.ms0

\* C19, its case: a 30 MB JPEG has been refused by a revision whose limit is 20 MB
C19_Witness ==
  \E s \in Slots :
    /\ Done(reqs[s]) /\ reqs[s].op \in Uploads /\ reqs[s].kind = "too_large"
    /\ reqs[s].file.size = 30
    /\ FileSizeLimit(rev) = 20

\* C21: when an attach has succeeded on a complaint that already had an image
\* in that slot and the delete of the old asset has not failed, the old asset
\* is no longer in the Media Store.
C21_SupersededRemoved ==
  \A s \in Slots :
    LET r == reqs[s]
        old == OldAsset(r.op, rev, r.orig)
    IN (Done(r) /\ r.op \in Attaches /\ r.code = 200 /\ old # NoAsset /\ ~r.delErr)
       => old \notin media

\* C22: no request calls the Media Store to store more than once, nor to
\* delete more than once, nor the Record Store to write more than once.
C22_OneStoreDeleteWrite ==
  \A s \in Slots :
    /\ reqs[s].stores <= 1
    /\ reqs[s].deletes <= 1
    /\ reqs[s].writes <= 1

\* C23: every imageBefore and imageAfter held by a persisted complaint is an
\* asset of the Media Store.
C23_NoDanglingReference == (Referenced \ {NoAsset}) \subseteq media

\* C26: a createWithBeforeImage rejected for missing fields, and an attach
\* rejected with 404 or for want of a file, leaves no asset of that request in
\* the Media Store.
C26_RejectedLeavesNoAsset ==
  \A s \in Slots :
    LET r == reqs[s]
    IN (/\ Done(r)
        /\ \/ r.op = "createWithBeforeImage" /\ r.code = 400 /\ r.kind = "validation"
           \/ r.op \in Attaches /\ r.kind \in {"not_found", "no_file"})
       => r.asset \notin media

\* C27: no handler ends without having sent a response.
C27_AlwaysAnswered == \A s \in Slots : reqs[s].pc # "hung"

\* C24: the write of an attachAfterImage that succeeds leaves the complaint
\* persisted with status completed, the status of the record it returns, also
\* when an updateStatus on that complaint ran between its read and its write.
C24_AttachAfterWritesCompleted ==
  [][\A s \in Slots :
       (/\ reqs[s].pc = "save" /\ reqs[s].op = "attachAfterImage"
        /\ reqs'[s].pc = "done" /\ reqs'[s].code = 200)
       => /\ complaints'[reqs[s].id].status = "completed"
          /\ complaints'[reqs[s].id].status = reqs'[s].doc.status]_vars

\* C25: when two attachBeforeImage requests for one complaint have both read
\* the record before either wrote it, no store operation has failed and both
\* are answered, imageBefore is an asset of the Media Store and neither
\* request has left another asset there.
C25_NoLeftoverAfterRace ==
  \A s, u \in Slots :
    LET r == reqs[s]
        q == reqs[u]
    IN (/\ s # u
        /\ Done(r) /\ r.op = "attachBeforeImage" /\ r.code = 200 /\ ~r.delErr
        /\ Done(q) /\ q.op = "attachBeforeImage" /\ q.code = 200 /\ ~q.delErr
        /\ r.id = q.id
        /\ r.orig = q.orig)
       => /\ complaints[r.id].imageBefore \in media
          /\ \A a \in {r.asset, q.asset} : a \in media => a = complaints[r.id].imageBefore

\* C28: the counts a stats request returns are those of one store state:
\* pending + inProgress + completed = total and withImages <= total (every
\* status being one of the three).
C28_StatsOfOneState ==
  \A s \in Slots :
    LET r == reqs[s]
    IN (Done(r) /\ r.op = "stats" /\ r.code = 200)
       => /\ r.out[2] + r.out[3] + r.out[4] = r.out[1]
          /\ r.out[5] <= r.out[1]

\* the fields the write of a request may change
Writes(op) ==
  CASE op = "attachAfterImage" ->
         {"imageAfter", "cloudinaryIdAfter", "status", "resolvedAt", "imageType", "fileSize"}
    [] op = "attachBeforeImage" ->
         {"imageBefore", "cloudinaryIdBefore", "imageType", "fileSize"}
    [] op = "updateStatus" -> {"status", "resolvedAt"}
    [] OTHER -> {}

\* C29: a step changes a persisted complaint only as the write of an
\* attachAfterImage, attachBeforeImage or updateStatus addressed to that very
\* complaint, and then only in the fields of that operation: attachAfterImage
\* leaves imageBefore and its handle, attachBeforeImage leaves imageAfter,
\* status and resolvedAt, updateStatus leaves the image fields.
C29_OwnSlotOnly ==
  [][\A i \in 1..Len(complaints) :
       complaints'[i] # complaints[i]
       => \E s \in Slots :
            /\ reqs[s].pc # "done" /\ reqs'[s].pc = "done"
            /\ reqs'[s].id = i
            /\ \A f \in DOMAIN complaints[i] :
                 complaints'[i][f] # complaints[i][f] => f \in Writes(reqs'[s].op)]_vars

\* C29, its case: an attachAfterImage to a complaint that has a before image,
\* next to another complaint, has been answered 200
C29_Witness ==
  \E s \in Slots :
    /\ Done(reqs[s]) /\ reqs[s].op = "attachAfterImage" /\ reqs[s].code = 200
    /\ Len(complaints) = 2
    /\ complaints[reqs[s].id].imageBefore # NoAsset
    /\ complaints[reqs[s].id].imageAfter = reqs[s].asset

\* C30: the resolvedAt of a complaint never decreases.
C30_ResolvedAtMonotone ==
  [][\A i \in 1..Len(complaints) :
       complaints[i].resolvedAt # NoTime
       => complaints'[i].resolvedAt >= complaints[i].resolvedAt]_vars

====
